---- MODULE Spec2Model ----
(***************************************************************************)
(* Extraction orchestration of the e-commerce scraper (src/app.py and      *)
(* src/platforms/*.py): whitelist classification, link discovery, the      *)
(* Amazon variant loop, and the scraping session with its listing loop     *)
(* and its two append-only CSV files.                                      *)
(***************************************************************************)
EXTENDS Integers, Sequences, FiniteSets, TLC

VARIABLES
    \* ---- whitelist classifier (app.py: check_whitelisted_seller)
    c_pc,                 \* "input" | "done"
    c_env,                \* the comma-separated pieces of WHITELISTED_SELLERS
    c_seller,             \* seller_name argument
    c_manufacturer,       \* manufacturer_name argument
    c_allow,              \* self.whitelisted_sellers after load_whitelisted_sellers
    c_result              \* return value: "Whitelisted" | "False" | "none"

clsVars == <<c_pc, c_env, c_seller, c_manufacturer, c_allow, c_result>>

VARIABLES
    \* ---- link discovery (platforms/*.py: get_product_links)
    g_pc,                 \* "input" | "done"
    g_adapter,            \* which extractor class runs
    g_hrefs,              \* the page's anchors, in document order
    g_alt,                \* Myntra: anchors found by the product-card selectors
    g_limit,              \* the limit argument
    g_urls                \* the returned list

lnkVars == <<g_pc, g_adapter, g_hrefs, g_alt, g_limit, g_urls>>

VARIABLES
    \* ---- pagination (amazon.py: go_to_next_page)
    n_pc,                 \* "idle" | "called" | "done"
    n_controls,           \* what each next-page selector finds, in list order
    n_navigates,          \* whether a click on the control loads another listing page
    n_result,             \* the value returned: TRUE | FALSE | "none"
    n_moved               \* whether the listing moved to a next page during the call

nxtVars == <<n_pc, n_controls, n_navigates, n_result, n_moved>>

VARIABLES
    \* ---- text helpers (base.py: first_text, text_by_xpath)
    t_pc,                 \* "idle" | "called" | "done"
    t_helper,             \* which helper was called
    t_selectors,          \* what each selector of the list yields on the page
    t_result              \* the value returned, or "none"

txtVars == <<t_pc, t_helper, t_selectors, t_result>>

VARIABLES
    \* ---- the variant loop (amazon.py: extract_variants)
    v_pc,                 \* "idle" | "called" | "loop" | "returned"
    v_main_url,           \* main_product_url argument
    v_dims,               \* variant_dimensions, as detected on the page
    v_d,                  \* position of the dimension being iterated
    v_o,                  \* position of the option being iterated
    v_variants,           \* the list being built, then returned
    v_attempts,           \* calls of _select_amazon_variant so far
    v_last                \* what the latest option attempt did

varVars == <<v_pc, v_main_url, v_dims, v_d, v_o, v_variants, v_attempts, v_last>>

VARIABLES
    \* ---- the scraping session (app.py: main, run_scraping_session, ...)
    pc,                   \* where the session is
    error,                \* the exception that ended the session, or "none"
    whitelisted_sellers,  \* self.whitelisted_sellers
    platform,             \* detect_platform(domain)
    flow,                 \* "single" | "listing" | "none"
    max_pages,            \* the page cap; -1 while it is still None
    interrupted,          \* the cap prompt was interrupted (Ctrl-C)
    variant_pages,        \* product pages so far on which variant selectors were found
    session_dir,          \* "none" | "created"
    products_csv,         \* the lines of the products file; <<>> when absent
    variants_csv,         \* the lines of the variants file; <<>> when absent
    current_page,         \* the listing loop's page counter
    product_links,        \* the links of the listing page being processed
    link_i,               \* position in product_links
    open_tabs,            \* product tabs currently open
    product_data,         \* the record extracted from the product page
    variants,             \* the list extract_variants returned
    var_i,                \* position in variants
    visited,              \* product links taken up so far
    iterations,           \* listing loop iterations begun
    next_calls,           \* calls of go_to_next_page
    exit_reason,          \* how the listing loop ended, or "none"
    last_outcome          \* how the latest product's processing ended, or "none"

sessVars == <<pc, error, whitelisted_sellers, platform, flow, max_pages, interrupted,
              variant_pages, session_dir, products_csv, variants_csv, current_page, product_links,
              link_i, open_tabs, product_data, variants, var_i, visited, iterations,
              next_calls, exit_reason, last_outcome>>

vars == <<clsVars, lnkVars, nxtVars, txtVars, varVars, sessVars>>

-----------------------------------------------------------------------------
(* Bounds of the model *)

MaxNameLen == 2        \* longest seller / manufacturer name, in characters
MaxAllow == 2          \* most comma-separated pieces in WHITELISTED_SELLERS
MaxAnchors == 3        \* most anchors on one page
MaxOptions == 2        \* most options detected for one variant dimension
MaxProducts == 3       \* most product links taken up in one session
MaxPagesInput == 2     \* largest page cap typed at the prompt
MaxRows == 2           \* data rows the disk takes in one session before writes fail
MaxSelectors == 3      \* most next-page selectors tried in one call
MaxStrategies == 3     \* most selectors handed to first_text / text_by_xpath
MaxVariantPages == 1   \* most product pages of a session that show variant selectors

-----------------------------------------------------------------------------
(* Strings: a name is a sequence of characters *)

Chars == {"a", "b", "A", " "}

RECURSIVE SeqsUpTo(_, _)
SeqsUpTo(S, n) ==
    IF n = 0 THEN {<<>>}
    ELSE LET shorter == SeqsUpTo(S, n - 1)
         IN  shorter \cup {Append(s, x) : s \in {t \in shorter : Len(t) = n - 1}, x \in S}

\* str.lower() on one character
LowerChar(ch) ==
    IF ch = "A" THEN "a" ELSE ch

\* str.lower()
Lower(s) ==
    [i \in 1..Len(s) |-> LowerChar(s[i])]

\* str.strip(): drop leading and trailing whitespace
RECURSIVE LStrip(_)
LStrip(s) ==
    IF s # <<>> /\ Head(s) = " " THEN LStrip(Tail(s)) ELSE s

RECURSIVE RStrip(_)
RStrip(s) ==
    IF s # <<>> /\ s[Len(s)] = " " THEN RStrip(SubSeq(s, 1, Len(s) - 1)) ELSE s

Strip(s) ==
    RStrip(LStrip(s))

\* Python's `needle in hay` on strings
Contains(hay, needle) ==
    \E i \in 1..(Len(hay) + 1) :
        /\ i + Len(needle) - 1 <= Len(hay)
        /\ SubSeq(hay, i, i + Len(needle) - 1) = needle

-----------------------------------------------------------------------------
(* Text helpers of the base extractor *)

\* the characters str.strip() and str.split() treat as whitespace
Whitespace ==
    {" ", "\t", "\n"}

\* str.strip() on an element's inner text
RECURSIVE StripText(_)
StripText(s) ==
    IF s = <<>> THEN s
    ELSE IF Head(s) \in Whitespace THEN StripText(Tail(s))
    ELSE IF s[Len(s)] \in Whitespace THEN StripText(SubSeq(s, 1, Len(s) - 1))
    ELSE s

\* str.split(): the maximal runs of non-whitespace characters, in order
RECURSIVE SplitText(_, _, _)
SplitText(s, word, words) ==
    IF s = <<>>
    THEN IF word = <<>> THEN words ELSE Append(words, word)
    ELSE IF Head(s) \in Whitespace
         THEN SplitText(Tail(s), <<>>, IF word = <<>> THEN words ELSE Append(words, word))
         ELSE SplitText(Tail(s), Append(word, Head(s)), words)

\* " ".join(words)
RECURSIVE JoinText(_)
JoinText(words) ==
    IF words = <<>> THEN <<>>
    ELSE IF Len(words) = 1 THEN words[1]
    ELSE words[1] \o <<" ">> \o JoinText(Tail(words))

\* inner texts an element of a page can have
PageTexts ==
    { <<>>,
      <<" ">>,
      <<"\n", "\t">>,
      <<"a">>,
      <<"b">>,
      <<" ", "a", "\n">>,
      <<"a", " ", "b">>,
      <<"a", "\t", " ", "b">>,
      <<"\n", "a", " ", "\n", "b", " ">> }

\* what one selector of the list does on the page: its query raises, it
\* matches no element, or its first element has some inner text
SelectorOutcomes ==
    {[kind |-> "raises", text |-> <<>>], [kind |-> "absent", text |-> <<>>]}
        \cup {[kind |-> "text", text |-> t] : t \in PageTexts}

\* the helpers' return value None
None ==
    [found |-> FALSE, text |-> <<>>]

\* a mutant of first_text: the exception of a selector ends the search
RECURSIVE FirstTextStopsOnRaise(_)
FirstTextStopsOnRaise(selectors) ==
    IF selectors = <<>> THEN None
    ELSE LET sel == Head(selectors)
             text == StripText(sel.text)
         IN  IF sel.kind = "raises" THEN None
             ELSE IF sel.kind = "text" /\ text # <<>>
             THEN [found |-> TRUE, text |-> JoinText(SplitText(text, <<>>, <<>>))]
             ELSE FirstTextStopsOnRaise(Tail(selectors))

\* base.py:19-31  first_text: per selector, inside try/except-pass, the
\* first element's inner text is stripped and, when non-empty, returned
\* as " ".join(text.split())
RECURSIVE first_text(_)
first_text(selectors) ==
    IF selectors = <<>> THEN None
    ELSE LET sel == Head(selectors)
             text == StripText(sel.text)
         IN  IF sel.kind = "text" /\ text # <<>>
             THEN [found |-> TRUE, text |-> JoinText(SplitText(text, <<>>, <<>>))]
             ELSE first_text(Tail(selectors))

\* base.py:33-45  text_by_xpath: the same loop over "xpath=" locators
RECURSIVE text_by_xpath(_)
text_by_xpath(xpaths) ==
    IF xpaths = <<>> THEN None
    ELSE LET xp == Head(xpaths)
             txt == StripText(xp.text)
         IN  IF xp.kind = "text" /\ txt # <<>>
             THEN [found |-> TRUE, text |-> JoinText(SplitText(txt, <<>>, <<>>))]
             ELSE text_by_xpath(Tail(xpaths))

TextHelpers ==
    {"first_text", "text_by_xpath"}

TextIdle ==
    /\ t_pc = "idle"
    /\ t_helper = "none"
    /\ t_selectors = <<>>
    /\ t_result = "none"

\* a helper is called with a list of selectors on some page
TextCalled ==
    /\ t_pc = "called"
    /\ t_helper \in TextHelpers
    /\ t_selectors \in SeqsUpTo(SelectorOutcomes, MaxStrategies)
    /\ t_result = "none"

\* base.py:19-45  the call returns
ExtractText ==
    /\ t_pc = "called"
    /\ t_result' = IF t_helper = "first_text"
                   THEN first_text(t_selectors)
                   ELSE text_by_xpath(t_selectors)
    /\ t_pc' = "done"
    /\ UNCHANGED <<t_helper, t_selectors>>
    /\ UNCHANGED <<clsVars, lnkVars, nxtVars, varVars, sessVars>>

-----------------------------------------------------------------------------
(* Whitelist classifier *)

\* app.py:102  [seller.strip() for seller in pieces if seller.strip()]
RECURSIVE load_whitelisted_sellers(_)
load_whitelisted_sellers(pieces) ==
    IF pieces = <<>> THEN <<>>
    ELSE LET rest == load_whitelisted_sellers(Tail(pieces))
         IN  IF Strip(Head(pieces)) # <<>>
             THEN <<Strip(Head(pieces))>> \o rest
             ELSE rest

\* a mutant of NameMatches: equality only, no substring tolerance
NameMatchesExactOnly(name, whitelisted) ==
    Lower(name) = Lower(whitelisted)

\* app.py:122-124  the three-way case-insensitive test
NameMatches(name, whitelisted) ==
    \/ Lower(name) = Lower(whitelisted)
    \/ Contains(Lower(name), Lower(whitelisted))
    \/ Contains(Lower(whitelisted), Lower(name))

\* app.py:110-114  names_to_check: an argument is taken when it is truthy
\* (non-empty before stripping) and is stripped when taken
NamesToCheck(seller_name, manufacturer_name) ==
    (IF seller_name # <<>> THEN <<Strip(seller_name)>> ELSE <<>>)
    \o (IF manufacturer_name # <<>> THEN <<Strip(manufacturer_name)>> ELSE <<>>)

\* a mutant of check_whitelisted_seller: empty names are not skipped
CheckWithoutEmptySkip(allow, seller_name, manufacturer_name) ==
    IF allow = <<>> THEN "False"
    ELSE LET names == <<Strip(seller_name), Strip(manufacturer_name)>>
         IN  IF \E i \in DOMAIN names, j \in DOMAIN allow : NameMatches(names[i], allow[j])
             THEN "Whitelisted"
             ELSE "False"

\* app.py:105-127
check_whitelisted_seller(allow, seller_name, manufacturer_name) ==
    IF allow = <<>> THEN "False"
    ELSE LET names == NamesToCheck(seller_name, manufacturer_name)
         IN  IF \E i \in DOMAIN names :
                    /\ names[i] # <<>>
                    /\ \E j \in DOMAIN allow : NameMatches(names[i], allow[j])
             THEN "Whitelisted"
             ELSE "False"

Names == SeqsUpTo(Chars, MaxNameLen)

\* pieces of the WHITELISTED_SELLERS value between commas
EnvPieces == {<<"a">>, <<"A", "b">>, <<" ", "b">>, <<" ">>}

ClassifyStart ==
    /\ c_pc = "input"
    /\ c_env \in SeqsUpTo(EnvPieces, MaxAllow)
    /\ c_seller \in Names
    /\ c_manufacturer \in Names
    /\ c_allow = load_whitelisted_sellers(c_env)
    /\ c_result = "none"

ClassifyIdle ==
    /\ c_pc = "idle"
    /\ c_env = <<>>
    /\ c_seller = <<>>
    /\ c_manufacturer = <<>>
    /\ c_allow = <<>>
    /\ c_result = "none"

Classify ==
    /\ c_pc = "input"
    /\ c_result' = check_whitelisted_seller(c_allow, c_seller, c_manufacturer)
    /\ c_pc' = "done"
    /\ UNCHANGED <<c_env, c_seller, c_manufacturer, c_allow>>
    /\ UNCHANGED <<txtVars, lnkVars, nxtVars, varVars, sessVars>>

-----------------------------------------------------------------------------
(* Link discovery.  An href is the sequence of the pieces of an absolute    *)
(* URL as the browser serialises it: host, path, then "?" and the query,    *)
(* then "#" and the fragment.                                               *)

\* str.split(sep)[0]: the part before the first separator
RECURSIVE SplitFirst(_, _)
SplitFirst(h, sep) ==
    IF h = <<>> \/ Head(h) = sep THEN <<>>
    ELSE <<Head(h)>> \o SplitFirst(Tail(h), sep)

\* `piece in h` for a piece of one of the kinds below
HasAny(h, pieces) ==
    \E i \in DOMAIN h : h[i] \in pieces

\* amazon.py:48-50  h.split("?")[0].split("#")[0]
CleanUrl(h) ==
    SplitFirst(SplitFirst(h, "?"), "#")

AmazonHosts == {"www.amazon.in", "aax-eu-zaz.amazon.in"}
MyntraHosts == {"www.myntra.com"}
\* amazon.py:32-38  sponsored / tracking URL shapes
SponsoredPieces == {"aax-eu-zaz.amazon.in"}
\* amazon.py:31  r'/dp/[A-Z0-9]{10}'
DpPieces == {"/dp/B000000001", "/dp/B000000002"}
\* flipkart.py:19  ["/p/", "/product/"]
FlipkartPieces == {"/shoe/p/itm1", "/product/7"}
\* myntra.py:29-33  ["/buy/", "-/p/", "/product/"]
MyntraPieces == {"/buy/shirt-1", "/product/7"}
\* generic.py:22-24  the three tiers of path shapes
PrimaryPieces == {"/dp/B000000001", "/dp/B000000002", "/shoe/p/itm1", "/product/7"}
SecondaryPieces == {"/buy/shirt-1", "/detail/7"}
TertiaryPieces == {"/shop/all"}

HrefPool ==
    { <<"www.amazon.in", "/dp/B000000001">>,
      <<"www.amazon.in", "/dp/B000000001", "?", "ref=1">>,
      <<"www.amazon.in", "/dp/B000000001", "#", "reviews">>,
      <<"www.amazon.in", "/dp/B000000002">>,
      <<"aax-eu-zaz.amazon.in", "/dp/B000000002">>,
      <<"www.amazon.in", "/s", "?", "k=shoes">>,
      <<"www.flipkart.com", "/shoe/p/itm1", "?", "ref=1">>,
      <<"www.flipkart.com", "/shoe/p/itm1", "?", "ref=2">>,
      <<"www.myntra.com", "/buy/shirt-1">>,
      <<"www.myntra.com", "/buy/shirt-1", "#", "size">>,
      <<"shop.example", "/product/7">>,
      <<"shop.example", "/detail/7">>,
      <<"shop.example", "/shop/all">> }

\* amazon.py:40-58
RECURSIVE AmazonLoop(_, _, _, _)
AmazonLoop(hrefs, urls, seen, limit) ==
    IF hrefs = <<>> THEN urls
    ELSE LET h == Head(hrefs)
             clean_url == CleanUrl(h)
         IN  IF HasAny(h, SponsoredPieces) THEN AmazonLoop(Tail(hrefs), urls, seen, limit)
             ELSE IF HasAny(h, DpPieces) /\ clean_url \notin seen /\ HasAny(clean_url, AmazonHosts)
             THEN IF Len(urls) + 1 >= limit
                  THEN Append(urls, clean_url)
                  ELSE AmazonLoop(Tail(hrefs), Append(urls, clean_url), seen \cup {clean_url}, limit)
             ELSE AmazonLoop(Tail(hrefs), urls, seen, limit)

\* flipkart.py:21-26, generic.py:27-32 and its two further tiers, myntra.py:74-80:
\* keep an href that carries one of `pieces` and was not seen, stop at limit
RECURSIVE RawLoop(_, _, _, _, _)
RawLoop(hrefs, urls, seen, limit, pieces) ==
    IF hrefs = <<>> THEN [urls |-> urls, seen |-> seen]
    ELSE LET h == Head(hrefs)
         IN  IF HasAny(h, pieces) /\ h \notin seen
             THEN IF Len(urls) + 1 >= limit
                  THEN [urls |-> Append(urls, h), seen |-> seen \cup {h}]
                  ELSE RawLoop(Tail(hrefs), Append(urls, h), seen \cup {h}, limit, pieces)
             ELSE RawLoop(Tail(hrefs), urls, seen, limit, pieces)

\* flipkart.py:14-28
FlipkartLinks(hrefs, limit) ==
    RawLoop(hrefs, <<>>, {}, limit, FlipkartPieces).urls

\* generic.py:15-52  primary tier, then secondary when fewer than limit // 2,
\* then tertiary when fewer than limit // 4
GenericLinks(hrefs, limit) ==
    LET first == RawLoop(hrefs, <<>>, {}, limit, PrimaryPieces)
        second == IF Len(first.urls) < limit \div 2
                  THEN RawLoop(hrefs, first.urls, first.seen, limit, SecondaryPieces)
                  ELSE first
        third == IF Len(second.urls) < limit \div 4
                 THEN RawLoop(hrefs, second.urls, second.seen, limit, TertiaryPieces)
                 ELSE second
    IN  third.urls

\* myntra.py:37-44  the main loop also wants the Myntra host
RECURSIVE MyntraLoop(_, _, _, _)
MyntraLoop(hrefs, urls, seen, limit) ==
    IF hrefs = <<>> THEN [urls |-> urls, seen |-> seen]
    ELSE LET h == Head(hrefs)
         IN  IF HasAny(h, MyntraPieces) /\ h \notin seen /\ HasAny(h, MyntraHosts)
             THEN IF Len(urls) + 1 >= limit
                  THEN [urls |-> Append(urls, h), seen |-> seen \cup {h}]
                  ELSE MyntraLoop(Tail(hrefs), Append(urls, h), seen \cup {h}, limit)
             ELSE MyntraLoop(Tail(hrefs), urls, seen, limit)

\* myntra.py:74-80  the alternative links are taken whatever their shape
RECURSIVE MyntraAltLoop(_, _, _, _)
MyntraAltLoop(links, urls, seen, limit) ==
    IF links = <<>> THEN urls
    ELSE LET link == Head(links)
         IN  IF link \notin seen
             THEN IF Len(urls) + 1 >= limit
                  THEN Append(urls, link)
                  ELSE MyntraAltLoop(Tail(links), Append(urls, link), seen \cup {link}, limit)
             ELSE MyntraAltLoop(Tail(links), urls, seen, limit)

\* myntra.py:14-83
MyntraLinks(hrefs, alt, limit) ==
    LET main == MyntraLoop(hrefs, <<>>, {}, limit)
    IN  IF main.urls = <<>>
        THEN MyntraAltLoop(alt, main.urls, main.seen, limit)
        ELSE main.urls

Adapters == {"amazon", "flipkart", "myntra", "generic"}

\* the get_product_links method of the adapter's class
get_product_links(adapter, hrefs, alt, limit) ==
    CASE adapter = "amazon" -> AmazonLoop(hrefs, <<>>, {}, limit)
      [] adapter = "flipkart" -> FlipkartLinks(hrefs, limit)
      [] adapter = "myntra" -> MyntraLinks(hrefs, alt, limit)
      [] OTHER -> GenericLinks(hrefs, limit)

\* app.py:425  the limit the session passes
LinkLimit == 50

Limits == {0, 1, 2, LinkLimit}

\* myntra.py:51-72  hrefs of the product-card anchors on the Myntra host,
\* already made unique by the page script
MyntraAltLists ==
    { <<>>,
      <<<<"www.myntra.com", "/shirt-1">>>>,
      <<<<"www.myntra.com", "/shirt-1">>, <<"www.myntra.com", "/shirt-1", "?", "ref=1">>>> }

LinksStart ==
    /\ g_pc = "input"
    /\ g_adapter \in Adapters
    /\ g_hrefs \in SeqsUpTo(HrefPool, MaxAnchors)
    /\ g_alt \in (IF g_adapter = "myntra" THEN MyntraAltLists ELSE {<<>>})
    /\ g_limit \in Limits
    /\ g_urls = <<>>

LinksIdle ==
    /\ g_pc = "idle"
    /\ g_adapter = "none"
    /\ g_hrefs = <<>>
    /\ g_alt = <<>>
    /\ g_limit = 0
    /\ g_urls = <<>>

DiscoverLinks ==
    /\ g_pc = "input"
    /\ g_urls' = get_product_links(g_adapter, g_hrefs, g_alt, g_limit)
    /\ g_pc' = "done"
    /\ UNCHANGED <<g_adapter, g_hrefs, g_alt, g_limit>>
    /\ UNCHANGED <<txtVars, clsVars, nxtVars, varVars, sessVars>>

-----------------------------------------------------------------------------
(* Product pages and the Amazon variant loop *)

\* amazon.py:60-163  what extract_product_data can read off a product page:
\* every field is a string, empty when its selectors find nothing; the
\* except branch (156-163) returns the all-empty record
PageContents ==
    { [title |-> <<"Widget">>, price |-> <<"199">>, seller_name |-> <<"a">>,
       manufacturer_name |-> <<>>, image_url |-> <<"img">>],
      [title |-> <<"Widget">>, price |-> <<>>, seller_name |-> <<>>,
       manufacturer_name |-> <<>>, image_url |-> <<>>],
      [title |-> <<>>, price |-> <<"199">>, seller_name |-> <<>>,
       manufacturer_name |-> <<"A", "b">>, image_url |-> <<>>],
      [title |-> <<>>, price |-> <<>>, seller_name |-> <<>>,
       manufacturer_name |-> <<>>, image_url |-> <<>>] }

\* what the page can show once a variant option was tried
VariantPageContents ==
    {c \in PageContents : (c.title = <<>>) = (c.price = <<>>)}

\* amazon.py:149-152  common_data['product_url'] = page.url
extract_product_data(page_url, content) ==
    [product_url |-> page_url,
     title |-> content.title,
     price |-> content.price,
     seller_name |-> content.seller_name,
     manufacturer_name |-> content.manufacturer_name,
     image_url |-> content.image_url]

\* amazon.py:256,284  dimension names, the keys of the detected dictionary
DimNames == {"color", "size"}

\* amazon.py:268-272  the options the page offers for a dimension, in
\* document order
OptionsOnPage(dim_name) ==
    IF dim_name = "color"
    THEN << [name |-> "Red", asin |-> "B00000000R", value |-> "B00000000R"],
            [name |-> "Blue", asin |-> "B00000000B", value |-> "B00000000B"],
            [name |-> "Green", asin |-> "B00000000G", value |-> "B00000000G"] >>
    ELSE << [name |-> "S", asin |-> "B00000000S", value |-> "B00000000S"],
            [name |-> "M", asin |-> "B00000000M", value |-> "B00000000M"],
            [name |-> "L", asin |-> "B00000000L", value |-> "B00000000L"] >>

\* the first k options of a dimension, k at most MaxOptions
OptionLists(dim_name) ==
    LET all == OptionsOnPage(dim_name)
    IN  {SubSeq(all, 1, k) : k \in 1..(IF MaxOptions < Len(all) THEN MaxOptions ELSE Len(all))}

\* amazon.py:245-310  _detect_amazon_variants: a dictionary in insertion
\* order, its keys distinct, a dimension kept only when it has options;
\* empty when nothing is found or detection raises
DimLists ==
    {<<>>}
    \cup UNION {{<<[name |-> n, options |-> os]>> : os \in OptionLists(n)} : n \in DimNames}
    \cup UNION {UNION {{<<[name |-> n1, options |-> os1], [name |-> n2, options |-> os2]>> :
                           os1 \in OptionLists(n1), os2 \in OptionLists(n2)} :
                        n2 \in DimNames \ {n1}} :
                 n1 \in DimNames}

\* a mutant of VariantData: the option is tagged with its ASIN, not its name
VariantDataTaggedByAsin(data, variant_url, main_product_url, dim_name, option) ==
    [product_url |-> data.product_url,
     title |-> data.title,
     price |-> data.price,
     seller_name |-> data.seller_name,
     manufacturer_name |-> data.manufacturer_name,
     image_url |-> data.image_url,
     variant_product_url |-> variant_url,
     main_product_url |-> main_product_url,
     variant_price |-> data.price,
     variant_type |-> dim_name,
     variant_option |-> option.asin,
     variant_asin |-> option.asin]

\* amazon.py:359-371  the re-extracted record with the variant's fields added
VariantData(data, variant_url, main_product_url, dim_name, option) ==
    [product_url |-> data.product_url,
     title |-> data.title,
     price |-> data.price,
     seller_name |-> data.seller_name,
     manufacturer_name |-> data.manufacturer_name,
     image_url |-> data.image_url,
     variant_product_url |-> variant_url,
     main_product_url |-> main_product_url,
     variant_price |-> data.price,
     variant_type |-> dim_name,
     variant_option |-> option.name,
     variant_asin |-> option.asin]

\* the URL of the page of the variant with this ASIN
AsinUrl(asin) ==
    <<"www.amazon.in", "/dp/" \o asin>>

ProductUrls == {AsinUrl("B000000001"), AsinUrl("B000000002")}

NoAttempt == [selection |-> "none", extraction |-> "none"]

VariantsIdle ==
    /\ v_pc = "idle"
    /\ v_main_url = <<>>
    /\ v_dims = <<>>
    /\ v_d = 0
    /\ v_o = 0
    /\ v_variants = <<>>
    /\ v_attempts = 0
    /\ v_last = NoAttempt

\* a call extract_variants(page, main_product_url) about to run
VariantsCalled(main_product_url) ==
    /\ v_pc = "called"
    /\ v_main_url = main_product_url
    /\ v_dims = <<>>
    /\ v_d = 0
    /\ v_o = 0
    /\ v_variants = <<>>
    /\ v_attempts = 0
    /\ v_last = NoAttempt

\* amazon.py:205-217  the settle wait and the detection; the outer except
\* (241-243) answers a raise with the empty list
DetectVariantDimensions(dim_lists) ==
    /\ v_pc = "called"
    /\ \E raised \in BOOLEAN, dims \in dim_lists :
        IF raised \/ dims = <<>>
        THEN /\ v_pc' = "returned"
             /\ UNCHANGED <<v_dims, v_d, v_o>>
        ELSE /\ v_pc' = "loop"
             /\ v_dims' = dims
             /\ v_d' = 1
             /\ v_o' = 1
    /\ UNCHANGED <<v_main_url, v_variants, v_attempts, v_last>>
    /\ UNCHANGED <<txtVars, clsVars, lnkVars, nxtVars>>

\* extract_variants called on its own, on any page
DetectVariants ==
    /\ pc = "idle"
    /\ DetectVariantDimensions(DimLists)
    /\ UNCHANGED sessVars

\* amazon.py:220,223  the two nested for loops: the position after (d, o)
AfterOption(dims, d, o) ==
    IF o < Len(dims[d].options) THEN [pc |-> "loop", d |-> d, o |-> o + 1]
    ELSE IF d < Len(dims) THEN [pc |-> "loop", d |-> d + 1, o |-> 1]
    ELSE [pc |-> "returned", d |-> d, o |-> o]

\* amazon.py:312-350  _select_amazon_variant ends in one of two ways, and
\* raises in neither: it clicked or selected a control ("selected"), or no
\* selector matched or every attempt raised ("not_selected")
SelectionOutcomes == {"selected", "not_selected"}

\* amazon.py:227-231  after the selection: the settle wait raises
\* ("raised"), or _extract_amazon_variant_data returns None ("none") or a
\* record ("record")
ExtractionOutcomes == {"raised", "none", "record"}

\* a mutant of AfterAttempt: a raise inside the option's try ends the call
AfterAttemptRaiseEnds(dims, d, o, extraction) ==
    IF extraction = "raised"
    THEN [pc |-> "returned", d |-> d, o |-> o]
    ELSE AfterOption(dims, d, o)

\* amazon.py:224-239  the try around one option: after a normal pass and
\* after `except Exception: continue` alike, the loops go on to the next option
AfterAttempt(dims, d, o, extraction) ==
    AfterOption(dims, d, o)

\* amazon.py:223-237  one pass of the inner loop body
TryOption ==
    /\ v_pc = "loop"
    /\ \E selection \in SelectionOutcomes, extraction \in ExtractionOutcomes,
          content \in VariantPageContents,
          page_url \in {v_main_url, AsinUrl(v_dims[v_d].options[v_o].asin)} :
        LET dim == v_dims[v_d]
            option == dim.options[v_o]
            variant_data == VariantData(extract_product_data(page_url, content),
                                        page_url, v_main_url, dim.name, option)
            after == AfterAttempt(v_dims, v_d, v_o, extraction)
        IN  /\ v_attempts' = v_attempts + 1
            /\ v_last' = [selection |-> selection, extraction |-> extraction]
            /\ v_variants' = IF extraction = "record"
                             THEN Append(v_variants, variant_data)
                             ELSE v_variants
            /\ v_pc' = after.pc
            /\ v_d' = after.d
            /\ v_o' = after.o
    /\ UNCHANGED <<v_main_url, v_dims>>
    /\ UNCHANGED <<txtVars, clsVars, lnkVars, nxtVars, sessVars>>

-----------------------------------------------------------------------------
(* Pagination: AmazonExtractor.go_to_next_page *)

\* amazon.py:181-191  what one selector of next_selectors finds: nothing
\* ("absent"), a control with aria-disabled="true" ("disabled"), a control
\* whose click goes through ("enabled"), or one whose lookup or click raises
\* ("raises")
ControlStates == {"absent", "disabled", "enabled", "raises"}

\* amazon.py:167-199  the selectors are tried in order: an absent control or
\* a raise moves on to the next selector, a disabled control returns False,
\* a click that goes through returns True after the settle wait; False when
\* the list is exhausted
RECURSIVE go_to_next_page(_)
go_to_next_page(controls) ==
    IF controls = <<>> THEN [result |-> FALSE, clicked |-> FALSE]
    ELSE CASE Head(controls) = "disabled" -> [result |-> FALSE, clicked |-> FALSE]
           [] Head(controls) = "enabled" -> [result |-> TRUE, clicked |-> TRUE]
           [] OTHER -> go_to_next_page(Tail(controls))

NextPageIdle ==
    /\ n_pc = "idle"
    /\ n_controls = <<>>
    /\ n_navigates = FALSE
    /\ n_result = "none"
    /\ n_moved = FALSE

\* a call go_to_next_page(page) about to run on a listing page
NextPageCalled ==
    /\ n_pc = "called"
    /\ n_controls \in SeqsUpTo(ControlStates, MaxSelectors)
    /\ n_navigates \in BOOLEAN
    /\ n_result = "none"
    /\ n_moved = FALSE

\* amazon.py:167-199  the call runs; the listing moves when a control was
\* clicked and the click loads another page
GoToNextPage ==
    /\ n_pc = "called"
    /\ n_pc' = "done"
    /\ n_result' = go_to_next_page(n_controls).result
    /\ n_moved' = (go_to_next_page(n_controls).clicked /\ n_navigates)
    /\ UNCHANGED <<n_controls, n_navigates>>
    /\ UNCHANGED <<txtVars, clsVars, lnkVars, varVars, sessVars>>

-----------------------------------------------------------------------------
(* The platform registry *)

\* platforms/__init__.py:23-38  the keys of PLATFORM_EXTRACTORS
Platforms ==
    {"amazon", "flipkart", "myntra", "meesho", "ajio", "ebay", "redbubble",
     "snapdeal", "shopsy", "nykaa", "tatacliq", "indiamart", "walmart", "generic"}

\* platforms/__init__.py:79-104  the order of the if / elif chain
DetectOrder ==
    <<"amazon", "flipkart", "myntra", "meesho", "ajio", "ebay", "redbubble",
      "snapdeal", "shopsy", "nykaa", "tatacliq", "indiamart", "walmart">>

\* a hostname is the sequence of its labels; `"amazon." in host` holds when
\* the label amazon is followed by another label
HasMarker(host, key) ==
    \E i \in 1..(Len(host) - 1) : host[i] = key

\* platforms/__init__.py:76-106
RECURSIVE DetectFrom(_, _)
DetectFrom(host, keys) ==
    IF keys = <<>> THEN "generic"
    ELSE IF HasMarker(host, Head(keys)) THEN Head(keys)
    ELSE DetectFrom(host, Tail(keys))

detect_platform(host) ==
    DetectFrom(host, DetectOrder)

\* platforms/__init__.py:41-56, 132-134  PLATFORM_TYPES with its default
get_platform_type(p) ==
    CASE p \in {"amazon", "flipkart", "myntra", "ebay", "redbubble", "shopsy",
                "walmart", "generic"} -> "pagination"
      [] p \in {"meesho", "ajio", "indiamart", "nykaa", "snapdeal"} -> "infinite_scroll"
      [] p = "tatacliq" -> "no_pagination"
      [] OTHER -> "pagination"

\* platforms/base.py:180-198  the abstract methods of BaseExtractor
AbstractMethods ==
    {"extract_product_data", "get_product_links", "go_to_next_page", "extract_variants"}

\* the abstract methods each extractor class overrides: amazon.py:22,60,167,203;
\* every other class defines get_product_links and extract_product_data only
MethodsDefined(p) ==
    IF p = "amazon"
    THEN {"extract_product_data", "get_product_links", "go_to_next_page", "extract_variants"}
    ELSE {"extract_product_data", "get_product_links"}

\* app.py:347-348  extractor_class(): a class that leaves an abstract method
\* undefined raises TypeError when instantiated
CanInstantiate(p) ==
    AbstractMethods \subseteq MethodsDefined(p)

StartHosts ==
    { <<"www", "amazon", "in">>, <<"www", "flipkart", "com">>, <<"www", "myntra", "com">>,
      <<"www", "meesho", "com">>, <<"www", "ajio", "com">>, <<"www", "ebay", "com">>,
      <<"www", "redbubble", "com">>, <<"www", "snapdeal", "com">>, <<"www", "shopsy", "in">>,
      <<"www", "nykaa", "com">>, <<"www", "tatacliq", "com">>, <<"dir", "indiamart", "com">>,
      <<"www", "walmart", "com">>, <<"shop", "example">> }

-----------------------------------------------------------------------------
(* The two CSV files.  A line is a tuple of cells, a cell a sequence. *)

\* app.py:238-241
ProductHeaders ==
    << <<"product_url">>, <<"title">>, <<"price">>, <<"seller_name">>,
       <<"manufacturer_name">>, <<"image_url">>, <<"is_whitelisted">> >>

\* app.py:248-251
VariantHeaders ==
    << <<"variant_product_url">>, <<"main_product_url">>, <<"title">>, <<"variant_price">>,
       <<"seller_name">>, <<"manufacturer_name">>, <<"image_url">>, <<"is_whitelisted">> >>

\* app.py:261-269  the row save_product_to_csv writes
ProductRow(d) ==
    <<d.product_url, d.title, d.price, d.seller_name, d.manufacturer_name,
      d.image_url, <<d.is_whitelisted>>>>

\* app.py:275-284  the row save_variant_to_csv writes
VariantRow(v, is_whitelisted) ==
    <<v.variant_product_url, v.main_product_url, v.title, v.variant_price,
      v.seller_name, v.manufacturer_name, v.image_url, <<is_whitelisted>>>>

\* the position of the column with this name in a header line, 0 when the
\* file has no such column
ColumnOf(headers, name) ==
    IF \E k \in 1..Len(headers) : headers[k] = <<name>>
    THEN CHOOSE k \in 1..Len(headers) : headers[k] = <<name>>
    ELSE 0

\* app.py:292-293  pd.read_csv: the first line names the columns; the field
\* `name` of data line i is the cell under that column, if there is one
ReadCsvField(lines, i, name) ==
    LET k == ColumnOf(lines[1], name)
    IN  IF k = 0
        THEN [found |-> FALSE, value |-> <<>>]
        ELSE [found |-> TRUE, value |-> lines[i][k]]

-----------------------------------------------------------------------------
(* The session *)


\* app.py:134-178  what get_pagination_input / get_scroll_input can return
PromptAnswers == 0..MaxPagesInput

\* the anchors a listing page of the session can carry
SessionHrefPool ==
    { <<"www.amazon.in", "/dp/B000000001">>,
      <<"www.amazon.in", "/dp/B000000001", "?", "ref=1">>,
      <<"www.amazon.in", "/dp/B000000002">>,
      <<"www.amazon.in", "/s", "?", "k=shoes">> }

NoData ==
    [product_url |-> <<>>, title |-> <<>>, price |-> <<>>, seller_name |-> <<>>,
     manufacturer_name |-> <<>>, image_url |-> <<>>, is_whitelisted |-> "none"]

\* app.py:452-454  product_data['is_whitelisted'] = check_whitelisted_seller(...)
Classified(data, allow) ==
    [product_url |-> data.product_url,
     title |-> data.title,
     price |-> data.price,
     seller_name |-> data.seller_name,
     manufacturer_name |-> data.manufacturer_name,
     image_url |-> data.image_url,
     is_whitelisted |-> check_whitelisted_seller(allow, data.seller_name,
                                                 data.manufacturer_name)]

\* a mutant of AppendRow: the file is opened with "w", which truncates it
RewriteWithRow(file, row) ==
    <<row>>

\* app.py:259-260, 273-274  open(..., "a") and writer.writerow(row)
AppendRow(file, row) ==
    Append(file, row)

\* app.py:258-260, 272-274  open(..., 'a') and writerow succeed or raise
\* OSError; writes fail once the disk holds MaxRows data rows
DiskOutcomes ==
    IF (Len(products_csv) - 1) + (Len(variants_csv) - 1) < MaxRows
    THEN {"ok", "error"}
    ELSE {"error"}

\* a mutant of ListingKeepsProduct: the product's row is left for later
ListingKeepsNothingYet(data) ==
    FALSE

\* a mutant of ListingKeepsProduct: the price is not looked at
ListingKeepsTitledOnly(data) ==
    data.title # <<>>

\* app.py:457  if product_data.get('title') or product_data.get('price')
ListingKeepsProduct(data) ==
    data.title # <<>> \/ data.price # <<>>

\* app.py:575  the same test in the single-product flow
SingleKeepsProduct(data) ==
    data.title # <<>> \/ data.price # <<>>

\* app.py:421  while max_pages == 0 or current_page <= max_pages
LoopContinues(cap, page) ==
    cap = 0 \/ page <= cap

\* a mutant of AfterLinks: an empty list does not break, the loop body goes on
\* to the pagination step
AfterLinksWithoutBreak(links) ==
    IF links = <<>>
    THEN [pc |-> "advance", exit_reason |-> "none"]
    ELSE [pc |-> "open_tab", exit_reason |-> "none"]

\* app.py:426-431  if not product_links: break; otherwise the for loop starts
AfterLinks(links) ==
    IF links = <<>>
    THEN [pc |-> "after_loop", exit_reason |-> "no_links"]
    ELSE [pc |-> "open_tab", exit_reason |-> "none"]

\* a mutant of MayAdvance: the pagination step still runs on the cap's page
MayAdvanceUpToCap(cap, page) ==
    cap = 0 \/ page <= cap

\* a mutant of MayAdvance: the cap 0 is not treated as "no cap"
MayAdvanceBelowCapOnly(cap, page) ==
    page < cap

\* app.py:489  if max_pages == 0 or current_page < max_pages
MayAdvance(cap, page) ==
    cap = 0 \/ page < cap

\* a mutant of NextPageNumber: the counter is not advanced
SamePageNumber(page) ==
    page

\* app.py:494  current_page += 1
NextPageNumber(page) ==
    page + 1

SessionIdle ==
    /\ pc = "idle"
    /\ error = "none"
    /\ whitelisted_sellers = <<>>
    /\ platform = "none"
    /\ flow = "none"
    /\ max_pages = -1
    /\ interrupted = FALSE
    /\ variant_pages = 0
    /\ session_dir = "none"
    /\ products_csv = <<>>
    /\ variants_csv = <<>>
    /\ current_page = 0
    /\ product_links = <<>>
    /\ link_i = 0
    /\ open_tabs = 0
    /\ product_data = NoData
    /\ variants = <<>>
    /\ var_i = 0
    /\ visited = 0
    /\ iterations = 0
    /\ next_calls = 0
    /\ exit_reason = "none"
    /\ last_outcome = "none"

\* app.py:29-40, 613-615  the object main() constructs
SessionStart ==
    /\ pc = "main"
    /\ error = "none"
    /\ whitelisted_sellers = <<>>
    /\ platform = "none"
    /\ flow = "none"
    /\ max_pages = -1
    /\ interrupted = FALSE
    /\ variant_pages = 0
    /\ session_dir = "none"
    /\ products_csv = <<>>
    /\ variants_csv = <<>>
    /\ current_page = 0
    /\ product_links = <<>>
    /\ link_i = 0
    /\ open_tabs = 0
    /\ product_data = NoData
    /\ variants = <<>>
    /\ var_i = 0
    /\ visited = 0
    /\ iterations = 0
    /\ next_calls = 0
    /\ exit_reason = "none"
    /\ last_outcome = "none"

\* the values of WHITELISTED_SELLERS a session starts under
SessionEnv ==
    {<< <<"A", "b">> >>}

\* the session ends with an exception that reaches the top level
Crash(kind) ==
    /\ pc' = "crashed"
    /\ error' = kind

\* app.py:58-83  the providers, in the order they are tried
Providers ==
    <<"OpenAI", "Anthropic", "Google", "Groq">>

\* what .env can hold for them: per provider, whether <NAME>_API_KEY and
\* <NAME>_MODEL are set to a non-empty value
ProviderConfigs ==
    [DOMAIN Providers -> [api_key : BOOLEAN, model : BOOLEAN]]

\* a mutant of detect_llm_provider: a key without a model is passed over,
\* and with no key at all the first provider is the default
RECURSIVE DetectWithDefault(_, _)
DetectWithDefault(config, i) ==
    IF i > Len(Providers) THEN Providers[1]
    ELSE IF config[i].api_key /\ config[i].model THEN Providers[i]
    ELSE DetectWithDefault(config, i + 1)

\* app.py:85-93  the first provider with a key decides: its name when its
\* model is set, RuntimeError when it is not; RuntimeError when none has a key
RECURSIVE detect_llm_provider(_, _)
detect_llm_provider(config, i) ==
    IF i > Len(Providers) THEN "RuntimeError"
    ELSE IF config[i].api_key
         THEN IF ~config[i].model THEN "RuntimeError" ELSE Providers[i]
    ELSE detect_llm_provider(config, i + 1)

\* app.py:42-54  setup_environment: detect_llm_provider first, whose
\* RuntimeError leaves main(); then the allow-list is loaded
SetupEnvironment ==
    /\ pc = "main"
    /\ \E config \in ProviderConfigs, pieces \in SessionEnv :
        IF detect_llm_provider(config, 1) # "RuntimeError"
        THEN /\ whitelisted_sellers' = load_whitelisted_sellers(pieces)
             /\ pc' = "url"
             /\ UNCHANGED error
        ELSE /\ Crash("RuntimeError")
             /\ UNCHANGED whitelisted_sellers
    /\ UNCHANGED <<platform, flow, max_pages, interrupted, variant_pages, session_dir, products_csv,
                   variants_csv, current_page, product_links, link_i, open_tabs,
                   product_data, variants, var_i, visited, iterations, next_calls,
                   exit_reason,
                   last_outcome>>
    /\ UNCHANGED <<txtVars, clsVars, lnkVars, nxtVars, varVars>>

\* app.py:618-629, 309-327  the URL (none when the prompt is cancelled), the
\* platform of its hostname, and is_single_product_url's verdict on its shape
RouteUrl ==
    /\ pc = "url"
    /\ \E cancelled \in BOOLEAN, host \in StartHosts, single \in BOOLEAN :
        IF cancelled
        THEN /\ pc' = "exited"
             /\ UNCHANGED <<platform, flow>>
        ELSE /\ platform' = detect_platform(host)
             /\ flow' = IF single THEN "single" ELSE "listing"
             /\ pc' = IF single THEN "single_setup" ELSE "prompt"
    /\ UNCHANGED <<error, whitelisted_sellers, max_pages, interrupted, variant_pages, session_dir,
                   products_csv, variants_csv, current_page, product_links, link_i,
                   open_tabs, product_data, variants, var_i, visited, iterations,
                   next_calls, exit_reason,
                   last_outcome>>
    /\ UNCHANGED <<txtVars, clsVars, lnkVars, nxtVars, varVars>>

\* a mutant of SetupResultsDirectory: the files are created empty
SetupWithoutHeaders ==
    /\ session_dir' = "created"
    /\ products_csv' = <<>>
    /\ variants_csv' = <<>>

\* app.py:214-255  setup_results_directory and initialize_csv_files: both
\* files are opened with "w" and get their header line
SetupResultsDirectory ==
    /\ session_dir' = "created"
    /\ products_csv' = <<ProductHeaders>>
    /\ variants_csv' = <<VariantHeaders>>

\* app.py:329-344  the cap by platform type (an interrupted prompt answers
\* 0), then the results directory
PromptAndSetup ==
    /\ pc = "prompt"
    /\ IF get_platform_type(platform) \in {"pagination", "infinite_scroll"}
       THEN \E answer \in PromptAnswers, ctrl_c \in BOOLEAN :
                /\ max_pages' = IF ctrl_c THEN 0 ELSE answer
                /\ interrupted' = ctrl_c
       ELSE /\ max_pages' = 1
            /\ UNCHANGED interrupted
    /\ SetupResultsDirectory
    /\ pc' = "listing_start"
    /\ UNCHANGED <<error, whitelisted_sellers, platform, flow, variant_pages, current_page,
                   product_links, link_i, open_tabs, product_data, variants, var_i,
                   visited, iterations, next_calls, exit_reason,
                   last_outcome>>
    /\ UNCHANGED <<txtVars, clsVars, lnkVars, nxtVars, varVars>>

\* app.py:346-348, 403-419  the extractor is instantiated, the browser
\* opened and the start URL loaded; page.goto is inside no try of its own
StartListing ==
    /\ pc = "listing_start"
    /\ \E reachable \in BOOLEAN :
        IF ~CanInstantiate(platform)
        THEN /\ Crash("TypeError")
             /\ UNCHANGED current_page
        ELSE IF ~reachable
        THEN /\ Crash("NavigationError")
             /\ UNCHANGED current_page
        ELSE /\ current_page' = 1
             /\ pc' = "loop_head"
             /\ UNCHANGED error
    /\ UNCHANGED <<whitelisted_sellers, platform, flow, max_pages, interrupted, variant_pages,
                   session_dir, products_csv, variants_csv, product_links, link_i,
                   open_tabs, product_data, variants, var_i, visited, iterations,
                   next_calls, exit_reason,
                   last_outcome>>
    /\ UNCHANGED <<txtVars, clsVars, lnkVars, nxtVars, varVars>>

\* app.py:421-428  the head of the listing loop: when the while test fails
\* the loop is left; otherwise the page's links are read, and an empty list
\* breaks out of the loop
GetProductLinks ==
    /\ pc = "loop_head"
    /\ IF ~LoopContinues(max_pages, current_page)
       THEN /\ pc' = "after_loop"
            /\ exit_reason' = "while_test"
            /\ UNCHANGED <<product_links, iterations, link_i>>
       ELSE \E hrefs \in SeqsUpTo(SessionHrefPool, MaxAnchors) :
            LET links == get_product_links(platform, hrefs, <<>>, LinkLimit)
            IN  /\ visited + Len(links) <= MaxProducts
                /\ product_links' = links
                /\ iterations' = iterations + 1
                /\ pc' = AfterLinks(links).pc
                /\ exit_reason' = AfterLinks(links).exit_reason
                /\ link_i' = IF links = <<>> THEN link_i ELSE 1
    /\ UNCHANGED <<error, whitelisted_sellers, platform, flow, max_pages, interrupted,
                   variant_pages, session_dir, products_csv, variants_csv, current_page,
                   open_tabs, product_data, variants, var_i, visited, next_calls,
                   last_outcome>>
    /\ UNCHANGED <<txtVars, clsVars, lnkVars, nxtVars, varVars>>

\* app.py:431, 486-487  the for loop moves to the next link, or ends
ToNextLink ==
    IF link_i < Len(product_links)
    THEN /\ link_i' = link_i + 1
         /\ pc' = "open_tab"
    ELSE /\ pc' = "advance"
         /\ UNCHANGED link_i

\* a mutant of ProductFailed: the handler does not close the product's tab
ProductFailedLeavesTab ==
    /\ product_data' = NoData
    /\ variants' = <<>>
    /\ var_i' = 0
    /\ ToNextLink
    /\ UNCHANGED open_tabs

\* a mutant of ProductFailed: the handler ends the page loop (break, not continue)
ProductFailedBreaks ==
    /\ open_tabs' = 0
    /\ product_data' = NoData
    /\ variants' = <<>>
    /\ var_i' = 0
    /\ pc' = "after_loop"
    /\ UNCHANGED link_i

\* app.py:480-486  the handler of one product's exception: the tab is
\* closed (a failure to close is swallowed) and the loop continues
ProductFailed ==
    /\ open_tabs' = 0
    /\ product_data' = NoData
    /\ variants' = <<>>
    /\ var_i' = 0
    /\ ToNextLink

\* app.py:435-454  a tab is opened on the link, the page is read and
\* classified; a raise anywhere here goes to the handler
OpenProductTab ==
    /\ pc = "open_tab"
    /\ \E outcome \in {"loaded", "raised"}, content \in PageContents :
        IF outcome = "raised"
        THEN /\ ProductFailed
             /\ last_outcome' = "tab_raised"
        ELSE /\ open_tabs' = open_tabs + 1
             /\ last_outcome' = "none"
             /\ product_data' = Classified(
                    extract_product_data(product_links[link_i], content),
                    whitelisted_sellers)
             /\ pc' = "save_product"
             /\ UNCHANGED <<variants, var_i, link_i>>
    /\ visited' = visited + 1
    /\ UNCHANGED <<error, whitelisted_sellers, platform, flow, max_pages, interrupted, variant_pages,
                   session_dir, products_csv, variants_csv, current_page, product_links,
                   iterations, next_calls, exit_reason>>
    /\ UNCHANGED <<txtVars, clsVars, lnkVars, nxtVars, varVars>>

\* app.py:456-460  the listing flow's save decision; a failed write raises
\* into the product's handler
SaveProductListing ==
    /\ pc = "save_product"
    /\ flow = "listing"
    /\ \E disk \in DiskOutcomes :
        IF ~ListingKeepsProduct(product_data)
        THEN /\ pc' = "call_variants"
             /\ UNCHANGED <<products_csv, open_tabs, product_data, variants, var_i, link_i,
                            last_outcome>>
        ELSE IF disk = "ok"
        THEN /\ products_csv' = AppendRow(products_csv, ProductRow(product_data))
             /\ pc' = "call_variants"
             /\ UNCHANGED <<open_tabs, product_data, variants, var_i, link_i, last_outcome>>
        ELSE /\ ProductFailed
             /\ last_outcome' = "write_raised"
             /\ UNCHANGED products_csv
    /\ UNCHANGED <<error, whitelisted_sellers, platform, flow, max_pages, interrupted, variant_pages,
                   session_dir, variants_csv, current_page, product_links, visited,
                   iterations, next_calls, exit_reason>>
    /\ UNCHANGED <<txtVars, clsVars, lnkVars, nxtVars, varVars>>

\* app.py:322-324, 521-572  the single-product flow up to the classified
\* record: results directory, extractor, browser, page.goto, extraction
StartSingle ==
    /\ pc = "single_setup"
    /\ SetupResultsDirectory
    /\ \E reachable \in BOOLEAN, url \in ProductUrls, content \in PageContents :
        IF ~CanInstantiate(platform)
        THEN /\ Crash("TypeError")
             /\ UNCHANGED <<product_data, open_tabs>>
        ELSE IF ~reachable
        THEN /\ Crash("NavigationError")
             /\ UNCHANGED <<product_data, open_tabs>>
        ELSE /\ product_data' = Classified(extract_product_data(url, content),
                                           whitelisted_sellers)
             /\ open_tabs' = 0
             /\ pc' = "save_product"
             /\ UNCHANGED error
    /\ UNCHANGED <<whitelisted_sellers, platform, flow, max_pages, interrupted, variant_pages,
                   current_page, product_links, link_i, variants, var_i, visited,
                   iterations, next_calls, exit_reason,
                   last_outcome>>
    /\ UNCHANGED <<txtVars, clsVars, lnkVars, nxtVars, varVars>>

\* app.py:574-578  the single-product flow's save decision; a failed write
\* leaves through the except of 600-602, which re-raises
SaveProductSingle ==
    /\ pc = "save_product"
    /\ flow = "single"
    /\ \E disk \in DiskOutcomes :
        IF ~SingleKeepsProduct(product_data)
        THEN /\ pc' = "call_variants"
             /\ UNCHANGED <<products_csv, error, last_outcome>>
        ELSE IF disk = "ok"
        THEN /\ products_csv' = AppendRow(products_csv, ProductRow(product_data))
             /\ pc' = "call_variants"
             /\ UNCHANGED <<error, last_outcome>>
        ELSE /\ Crash("OSError")
             /\ last_outcome' = "write_raised"
             /\ UNCHANGED products_csv
    /\ UNCHANGED <<whitelisted_sellers, platform, flow, max_pages, interrupted, variant_pages,
                   session_dir, variants_csv, current_page, product_links, link_i,
                   open_tabs, product_data, variants, var_i, visited, iterations,
                   next_calls, exit_reason>>
    /\ UNCHANGED <<txtVars, clsVars, lnkVars, nxtVars, varVars>>

\* app.py:463, 581  extract_variants(page, url) is called with the link
\* (listing flow) or the start URL (single-product flow)
CallExtractVariants ==
    /\ pc = "call_variants"
    /\ pc' = "in_variants"
    /\ v_pc' = "called"
    /\ v_main_url' = IF flow = "listing" THEN product_links[link_i]
                     ELSE product_data.product_url
    /\ UNCHANGED <<v_dims, v_d, v_o, v_variants, v_attempts, v_last>>
    /\ UNCHANGED <<error, whitelisted_sellers, platform, flow, max_pages, interrupted, variant_pages,
                   session_dir, products_csv, variants_csv, current_page, product_links,
                   link_i, open_tabs, product_data, variants, var_i, visited, iterations,
                   next_calls, exit_reason,
                   last_outcome>>
    /\ UNCHANGED <<txtVars, clsVars, lnkVars, nxtVars>>

\* the selectors a product page of a session shows: one dimension, or none
SessionDimLists ==
    {dims \in DimLists : Len(dims) <= 1}

\* amazon.py:205-217 inside the session: detection on the product's page
DetectSessionVariants ==
    /\ pc = "in_variants"
    /\ IF variant_pages < MaxVariantPages
       THEN DetectVariantDimensions(SessionDimLists)
       ELSE DetectVariantDimensions({<<>>})
    /\ variant_pages' = IF v_pc' = "loop" THEN variant_pages + 1 ELSE variant_pages
    /\ UNCHANGED <<pc, error, whitelisted_sellers, platform, flow, max_pages,
                   interrupted, session_dir, products_csv, variants_csv, current_page,
                   product_links, link_i, open_tabs, product_data, variants, var_i, visited, iterations,
                   next_calls, exit_reason,
                   last_outcome>>

\* app.py:463-466, 581-584  the call returns its list; `if variants:` skips
\* the saving loop for an empty one
TakeVariants ==
    /\ pc = "in_variants"
    /\ v_pc = "returned"
    /\ variants' = v_variants
    /\ var_i' = IF v_variants = <<>> THEN 0 ELSE 1
    /\ pc' = IF v_variants = <<>> THEN "close_tab" ELSE "save_variant"
    /\ v_pc' = "idle"
    /\ v_main_url' = <<>>
    /\ v_dims' = <<>>
    /\ v_d' = 0
    /\ v_o' = 0
    /\ v_variants' = <<>>
    /\ v_attempts' = 0
    /\ v_last' = NoAttempt
    /\ UNCHANGED <<error, whitelisted_sellers, platform, flow, max_pages, interrupted, variant_pages,
                   session_dir, products_csv, variants_csv, current_page, product_links,
                   link_i, open_tabs, product_data, visited, iterations, next_calls,
                   exit_reason,
                   last_outcome>>
    /\ UNCHANGED <<txtVars, clsVars, lnkVars, nxtVars>>

\* app.py:466-473, 584-591  one pass of the saving loop: the variant is
\* classified and its row appended, whatever its fields hold; a failed
\* write raises (listing: into the product's handler; single: to the top)
SaveVariant ==
    /\ pc = "save_variant"
    /\ \E disk \in DiskOutcomes :
        LET v == variants[var_i]
            flag == check_whitelisted_seller(whitelisted_sellers, v.seller_name,
                                             v.manufacturer_name)
        IN  IF disk = "ok"
            THEN /\ variants_csv' = AppendRow(variants_csv, VariantRow(v, flag))
                 /\ IF var_i < Len(variants)
                    THEN /\ var_i' = var_i + 1
                         /\ UNCHANGED pc
                    ELSE /\ pc' = "close_tab"
                         /\ UNCHANGED var_i
                 /\ UNCHANGED <<error, open_tabs, product_data, variants, link_i,
                                last_outcome>>
            ELSE IF flow = "listing"
            THEN /\ ProductFailed
                 /\ last_outcome' = "write_raised"
                 /\ UNCHANGED <<error, variants_csv>>
            ELSE /\ Crash("OSError")
                 /\ last_outcome' = "write_raised"
                 /\ UNCHANGED <<variants_csv, open_tabs, product_data, variants, var_i,
                                link_i>>
    /\ UNCHANGED <<whitelisted_sellers, platform, flow, max_pages, interrupted, variant_pages,
                   session_dir, products_csv, current_page, product_links, visited,
                   iterations, next_calls, exit_reason>>
    /\ UNCHANGED <<txtVars, clsVars, lnkVars, nxtVars, varVars>>

\* app.py:475-478  the product's tab is closed (listing flow); app.py:593
\* the browser is closed (single-product flow)
CloseTab ==
    /\ pc = "close_tab"
    /\ last_outcome' = "closed"
    /\ open_tabs' = 0
    /\ product_data' = NoData
    /\ variants' = <<>>
    /\ var_i' = 0
    /\ IF flow = "listing"
       THEN ToNextLink
       ELSE /\ pc' = "done"
            /\ UNCHANGED link_i
    /\ UNCHANGED <<error, whitelisted_sellers, platform, flow, max_pages, interrupted, variant_pages,
                   session_dir, products_csv, variants_csv, current_page, product_links,
                   visited, iterations, next_calls, exit_reason>>
    /\ UNCHANGED <<txtVars, clsVars, lnkVars, nxtVars, varVars>>

\* app.py:488-503, amazon.py:167-199  after the page's links: when the cap
\* allows, go_to_next_page is called; False breaks, True advances the counter
AdvancePage ==
    /\ pc = "advance"
    /\ IF MayAdvance(max_pages, current_page)
       THEN \E controls \in SeqsUpTo(ControlStates, 1) :
            LET next_page_success == go_to_next_page(controls).result
            IN  /\ next_calls' = next_calls + 1
                /\ IF next_page_success
                   THEN /\ current_page' = NextPageNumber(current_page)
                        /\ pc' = "loop_head"
                        /\ UNCHANGED exit_reason
                   ELSE /\ pc' = "after_loop"
                        /\ exit_reason' = "next_failed"
                        /\ UNCHANGED current_page
       ELSE /\ pc' = "after_loop"
            /\ exit_reason' = "cap_reached"
            /\ UNCHANGED <<next_calls, current_page>>
    /\ UNCHANGED <<error, whitelisted_sellers, platform, flow, max_pages, interrupted, variant_pages,
                   session_dir, products_csv, variants_csv, product_links, link_i,
                   open_tabs, product_data, variants, var_i, visited, iterations,
                   last_outcome>>
    /\ UNCHANGED <<txtVars, clsVars, lnkVars, nxtVars, varVars>>

\* app.py:505-510, 362-368  the browser is closed and the workbook written
Finish ==
    /\ pc = "after_loop"
    /\ pc' = "done"
    /\ UNCHANGED <<error, whitelisted_sellers, platform, flow, max_pages, interrupted, variant_pages,
                   session_dir, products_csv, variants_csv, current_page, product_links,
                   link_i, open_tabs, product_data, variants, var_i, visited, iterations,
                   next_calls, exit_reason,
                   last_outcome>>
    /\ UNCHANGED <<txtVars, clsVars, lnkVars, nxtVars, varVars>>

-----------------------------------------------------------------------------
(* Specifications *)

ClassifyInit ==
    ClassifyStart /\ LinksIdle /\ NextPageIdle /\ TextIdle /\ VariantsIdle /\ SessionIdle

ClassifyNext ==
    Classify

SpecClassify ==
    ClassifyInit /\ [][ClassifyNext]_vars

LinksInit ==
    LinksStart /\ ClassifyIdle /\ NextPageIdle /\ TextIdle /\ VariantsIdle /\ SessionIdle

LinksNext ==
    DiscoverLinks

SpecLinks ==
    LinksInit /\ [][LinksNext]_vars

VariantsInit ==
    /\ \E u \in ProductUrls : VariantsCalled(u)
    /\ ClassifyIdle
    /\ LinksIdle
    /\ NextPageIdle
    /\ TextIdle
    /\ SessionIdle

VariantsNext ==
    \/ DetectVariants
    \/ TryOption

SpecVariants ==
    VariantsInit /\ [][VariantsNext]_vars

NextPageInit ==
    NextPageCalled /\ ClassifyIdle /\ LinksIdle /\ TextIdle /\ VariantsIdle /\ SessionIdle

NextPageNext ==
    GoToNextPage

SpecNextPage ==
    NextPageInit /\ [][NextPageNext]_vars

TextInit ==
    TextCalled /\ ClassifyIdle /\ LinksIdle /\ NextPageIdle /\ VariantsIdle /\ SessionIdle

TextNext ==
    ExtractText

SpecText ==
    TextInit /\ [][TextNext]_vars

Init ==
    SessionStart /\ ClassifyIdle /\ LinksIdle /\ NextPageIdle /\ TextIdle /\ VariantsIdle

Next ==
    \/ SetupEnvironment
    \/ RouteUrl
    \/ PromptAndSetup
    \/ StartListing
    \/ GetProductLinks
    \/ OpenProductTab
    \/ SaveProductListing
    \/ StartSingle
    \/ SaveProductSingle
    \/ CallExtractVariants
    \/ DetectSessionVariants
    \/ TryOption
    \/ TakeVariants
    \/ SaveVariant
    \/ CloseTab
    \/ AdvancePage
    \/ Finish

Spec ==
    Init /\ [][Next]_vars

\* the session is one sequential coroutine: while a step is enabled and its
\* page operation returns, the step is taken
FairSpec ==
    Spec /\ WF_vars(Next)

-----------------------------------------------------------------------------
(* Claims *)

\* the claims' matching relation: either string contains the other after
\* case-folding and trimming
EitherContains(s, w) ==
    \/ Contains(Lower(Strip(s)), Lower(Strip(w)))
    \/ Contains(Lower(Strip(w)), Lower(Strip(s)))

\* C1 as stated: check_whitelisted_seller returns "Whitelisted" if and only
\* if the seller name s, case-folded and trimmed, contains some allow-list
\* entry or is contained in one, whatever the manufacturer name; otherwise
\* it returns "False".
C1_SellerOnlyIff ==
    c_pc = "done" =>
        /\ c_result \in {"Whitelisted", "False"}
        /\ c_result = "Whitelisted" <=>
               \E j \in DOMAIN c_allow : EitherContains(c_seller, c_allow[j])

\* C1 amended: the result is "Whitelisted" if and only if the seller name
\* or the manufacturer name is non-empty after trimming and, case-folded and
\* trimmed, contains some allow-list entry or is contained in one; otherwise
\* it is "False".
C1_SellerOrManufacturerIff ==
    c_pc = "done" =>
        /\ c_result \in {"Whitelisted", "False"}
        /\ c_result = "Whitelisted" <=>
               \E n \in {c_seller, c_manufacturer} :
                   /\ Strip(n) # <<>>
                   /\ \E j \in DOMAIN c_allow : EitherContains(n, c_allow[j])

\* a classification decided by the manufacturer name alone, through an
\* entry that the manufacturer name only contains
C1_Witness ==
    /\ c_pc = "done"
    /\ c_result = "Whitelisted"
    /\ Strip(c_seller) # <<>>
    /\ \A j \in DOMAIN c_allow : ~EitherContains(c_seller, c_allow[j])
    /\ \E j \in DOMAIN c_allow :
           /\ Lower(Strip(c_manufacturer)) # Lower(c_allow[j])
           /\ EitherContains(c_manufacturer, c_allow[j])

\* the normal form of a URL: query string and fragment stripped
NormalizedUrl(u) ==
    SplitFirst(SplitFirst(u, "#"), "?")

\* C8: get_product_links never returns two URLs that are equal after
\* normalization, in any adapter.
C8_NoDuplicateNormalizedUrls ==
    g_pc = "done" =>
        \A i, j \in DOMAIN g_urls :
            i # j => NormalizedUrl(g_urls[i]) # NormalizedUrl(g_urls[j])

\* C9: get_product_links returns at most limit URLs, for every limit >= 0.
C9_AtMostLimit ==
    g_pc = "done" => Len(g_urls) <= g_limit

\* C2: in both flows the save decision on a product record appends its row
\* to the products file only if its title or its price is non-empty, and
\* then appends exactly that row unless the write itself raises; a record
\* with neither leaves the file as it was; no other step touches the file
\* once its header is written.
C2_ProductSavedIffTitleOrPrice ==
    [][ /\ pc = "save_product" =>
            LET keep == product_data.title # <<>> \/ product_data.price # <<>>
                appended == products_csv' = Append(products_csv, ProductRow(product_data))
            IN  /\ ~keep => products_csv' = products_csv /\ pc' = "call_variants"
                /\ keep => \/ appended /\ pc' = "call_variants"
                           \/ products_csv' = products_csv /\ pc' # "call_variants"
        /\ pc \notin {"save_product", "prompt", "single_setup"} =>
            products_csv' = products_csv ]_vars

\* a product with a price and no title has just been appended
C2_Witness ==
    /\ pc = "call_variants"
    /\ product_data.title = <<>>
    /\ product_data.price # <<>>
    /\ Len(products_csv) > 1
    /\ products_csv[Len(products_csv)] = ProductRow(product_data)

\* C3: every data row of the variants file has a non-empty title or a
\* non-empty variant price.
C3_VariantRowsHaveTitleOrPrice ==
    \A i \in 2..Len(variants_csv) :
        variants_csv[i][3] # <<>> \/ variants_csv[i][4] # <<>>

\* C4: with a page cap N > 0 the listing loop has called go_to_next_page at
\* most N times.
C4_AtMostNCalls ==
    max_pages > 0 => next_calls <= max_pages

\* a run with cap 2 that advanced once and stopped at the cap
C4_Witness ==
    /\ max_pages = 2
    /\ next_calls = 1
    /\ current_page = 2
    /\ exit_reason = "cap_reached"

\* C5: with max_pages = 0, after each page whose links were processed
\* go_to_next_page is called; a True return starts another iteration and a
\* False return ends the loop; the loop is never left through the page
\* counter (neither the while test nor the cap test of the pagination step).
C5_UnboundedUntilFalse ==
    /\ [][ (max_pages = 0 /\ pc = "advance") =>
             /\ next_calls' = next_calls + 1
             /\ \/ pc' = "loop_head" /\ current_page' = current_page + 1
                \/ pc' = "after_loop" /\ exit_reason' = "next_failed" ]_vars
    /\ [][ (max_pages = 0 /\ pc = "loop_head") => iterations' = iterations + 1 ]_vars
    /\ [](max_pages = 0 => exit_reason \in {"none", "no_links", "next_failed"})

\* an uncapped run of three pages: two True returns, then the first False
C5_Witness ==
    /\ max_pages = 0
    /\ iterations = 3
    /\ next_calls = 3
    /\ exit_reason = "next_failed"

\* C6: a finished listing session on a no_pagination platform ran exactly
\* one loop iteration and never called go_to_next_page.
C6_SinglePageOneIteration ==
    (/\ flow = "listing"
     /\ platform \in Platforms
     /\ get_platform_type(platform) = "no_pagination"
     /\ pc \in {"done", "crashed"})
        => (iterations = 1 /\ next_calls = 0)

\* C7: when the first page's link list is empty the loop has ended, and
\* go_to_next_page was not called, both files hold their header only, and
\* no error was raised.
C7_EmptyFirstPageEndsLoop ==
    (flow = "listing" /\ iterations = 1 /\ product_links = <<>>)
        => /\ pc \in {"after_loop", "done"}
           /\ next_calls = 0
           /\ products_csv = <<ProductHeaders>>
           /\ variants_csv = <<VariantHeaders>>
           /\ error = "none"

\* a listing session that ended on an empty first page
C7_Witness ==
    /\ flow = "listing"
    /\ iterations = 1
    /\ product_links = <<>>
    /\ exit_reason = "no_links"
    /\ pc = "done"

\* the number of options over all detected dimensions
RECURSIVE OptionCount(_)
OptionCount(dims) ==
    IF dims = <<>> THEN 0
    ELSE Len(Head(dims).options) + OptionCount(Tail(dims))

\* C10: when extract_variants returns after detection it has made one
\* selection attempt per option per dimension, the sum of the option counts;
\* every pass of the loop makes one attempt and appends at most one record;
\* a pass whose selection succeeded and whose re-extraction returned a record
\* appends exactly one record, tagged with the dimension's name as
\* variant_type and the option's name as variant_option.
C10_OneAttemptPerOption ==
    /\ [](v_pc = "returned" => v_attempts = OptionCount(v_dims))
    /\ [][ v_pc = "loop" =>
             LET dim == v_dims[v_d]
                 option == dim.options[v_o]
                 n == Len(v_variants)
             IN  /\ v_attempts' = v_attempts + 1
                 /\ Len(v_variants') <= n + 1
                 /\ SubSeq(v_variants', 1, n) = v_variants
                 /\ (v_last'.selection = "selected" /\ v_last'.extraction = "record") =>
                        /\ Len(v_variants') = n + 1
                        /\ v_variants'[n + 1].variant_type = dim.name
                        /\ v_variants'[n + 1].variant_option = option.name ]_vars

\* a page with two dimensions of two options each: four attempts were made
\* and the last option, selected successfully, gave a record
C10_Witness ==
    /\ v_pc = "returned"
    /\ Len(v_dims) = 2
    /\ v_attempts = 4
    /\ v_last = [selection |-> "selected", extraction |-> "record"]
    /\ Len(v_variants) = 4

\* C11: in extract_variants every pass of the option loop, whether its
\* selection failed, its extraction raised or returned nothing, or it gave a
\* record, is followed by the next option of the dimension, then by the
\* first option of the next dimension; the call returns only after the last
\* option of the last dimension.
C11_FailureNeverEndsLoop ==
    [][ v_pc = "loop" =>
          LET last_option == v_o = Len(v_dims[v_d].options)
              last_dim == v_d = Len(v_dims)
          IN  /\ ~last_option => (v_pc' = "loop" /\ v_d' = v_d /\ v_o' = v_o + 1)
              /\ (last_option /\ ~last_dim) => (v_pc' = "loop" /\ v_d' = v_d + 1 /\ v_o' = 1)
              /\ (last_option /\ last_dim) => v_pc' = "returned" ]_vars

\* the last option of the first dimension raised, selection having failed,
\* and the loop stands at the first option of the second dimension
C11_Witness ==
    /\ v_pc = "loop"
    /\ v_d = 2
    /\ v_o = 1
    /\ v_last = [selection |-> "not_selected", extraction |-> "raised"]
    /\ v_variants = <<>>

\* C12: in the listing flow a raise while a product's tab is opened and read
\* is caught: no error is recorded, the loop goes on with the next link of
\* the page, or with the pagination step after the last link; a listing
\* session that ended with an exception did not end on a product's failure.
C12_ProductFailureIsContained ==
    /\ [][ (flow = "listing" /\ pc = "open_tab" /\ last_outcome' = "tab_raised") =>
             /\ error' = "none"
             /\ IF link_i < Len(product_links)
                THEN pc' = "open_tab" /\ link_i' = link_i + 1
                ELSE pc' = "advance" ]_vars
    /\ []((flow = "listing" /\ pc = "crashed") => last_outcome = "none")

\* the first link's tab raised and the second link of the page is up next
C12_Witness ==
    /\ flow = "listing"
    /\ last_outcome = "tab_raised"
    /\ pc = "open_tab"
    /\ link_i = 2
    /\ error = "none"

\* C13: once an append to the products file or to the variants file has
\* raised, the session has ended with the error: nothing further is processed.
C13_WriteFailureAborts ==
    last_outcome = "write_raised" => (pc = "crashed" /\ error # "none")

\* s is an initial part of t
IsPrefix(s, t) ==
    Len(s) <= Len(t) /\ SubSeq(t, 1, Len(s)) = s

\* C14: once the results directory is set up, every step leaves each line
\* of the products file and of the variants file in place: the files only
\* grow at their end, whatever navigation, extraction or write fails.
C14_FilesOnlyAppended ==
    [][ session_dir = "created" =>
          /\ IsPrefix(products_csv, products_csv')
          /\ IsPrefix(variants_csv, variants_csv') ]_vars

\* a product row was written, a later write raised and ended the session,
\* and the row is still in the file
C14_Witness ==
    /\ pc = "crashed"
    /\ last_outcome = "write_raised"
    /\ Len(products_csv) = 2
    /\ products_csv[1] = ProductHeaders

\* C15: no two data rows of the products file carry the same product URL.
C15_ProductUrlWrittenOnce ==
    \A i, j \in 2..Len(products_csv) :
        products_csv[i][1] = products_csv[j][1] => i = j

\* the fields of a variant record as extract_variants returns it
VariantRecordFields ==
    {"variant_product_url", "main_product_url", "title", "variant_price",
     "seller_name", "manufacturer_name", "image_url", "variant_type", "variant_option"}

\* the text a field of the record stands for
FieldText(v, f) ==
    IF f \in {"variant_type", "variant_option"} THEN <<v[f]>> ELSE v[f]

\* C16: when a variant row is appended, reading the variants file back
\* gives every field of the record, variant_type and variant_option
\* included, with the value the record held.
C16_VariantRoundTrip ==
    [][ (pc = "save_variant" /\ Len(variants_csv') = Len(variants_csv) + 1) =>
          \A f \in VariantRecordFields :
              LET r == ReadCsvField(variants_csv', Len(variants_csv'), f)
              IN  r.found /\ r.value = FieldText(variants[var_i], f) ]_vars

\* C17: no session ends with a navigation failure: an unreachable page is
\* recovered from in the listing flow (start URL and product tabs) and in
\* the single-product flow.
C17_NavigationFailureRecovered ==
    ~(pc = "crashed" /\ error = "NavigationError")

\* C18: the platform detected for the session's hostname has an adapter
\* that can be instantiated with all four capabilities, so no session ends
\* with the TypeError of an abstract class.
C18_EveryAdapterInstantiable ==
    platform \in Platforms =>
        /\ AbstractMethods \subseteq MethodsDefined(platform)
        /\ error # "TypeError"

\* C19: when go_to_next_page has returned True the listing moved to a next
\* page; a disabled or absent control, or a click that loads nothing, gives
\* False.
C19_TrueOnlyIfMoved ==
    n_pc = "done" => (n_result = TRUE => n_moved)

\* the allow-lists load_whitelisted_sellers can produce
AllowLists ==
    {load_whitelisted_sellers(pieces) : pieces \in SeqsUpTo(EnvPieces, MaxAllow)}

\* C20: a product whose seller name and manufacturer name are both empty
\* is classified "False", under the session's allow-list and under every
\* other one; when it has a title or a price its row is appended with
\* is_whitelisted = "False" unless the write raises; and when no variant
\* dimension was detected on a page, no variant row is written for it.
C20_NamelessProductSavedAsFalse ==
    /\ []((/\ pc = "save_product"
           /\ product_data.seller_name = <<>>
           /\ product_data.manufacturer_name = <<>>) =>
              /\ product_data.is_whitelisted = "False"
              /\ \A allow \in AllowLists : check_whitelisted_seller(allow, <<>>, <<>>) = "False")
    /\ [][ (/\ pc = "save_product"
            /\ product_data.seller_name = <<>>
            /\ product_data.manufacturer_name = <<>>
            /\ (product_data.title # <<>> \/ product_data.price # <<>>)) =>
              \/ /\ Len(products_csv') = Len(products_csv) + 1
                 /\ products_csv'[Len(products_csv')][1] = product_data.product_url
                 /\ products_csv'[Len(products_csv')][2] = product_data.title
                 /\ products_csv'[Len(products_csv')][3] = product_data.price
                 /\ products_csv'[Len(products_csv')][7] = <<"False">>
              \/ last_outcome' = "write_raised" ]_vars
    /\ [][ (pc = "in_variants" /\ v_pc = "returned" /\ v_dims = <<>>) =>
              (pc' = "close_tab" /\ variants_csv' = variants_csv) ]_vars

\* a single-product session: the product has a title and no seller or
\* manufacturer, its row is in the file with "False", no dimension was
\* detected and the variants file holds its header only
C20_Witness ==
    /\ flow = "single"
    /\ pc = "close_tab"
    /\ product_data.seller_name = <<>>
    /\ product_data.manufacturer_name = <<>>
    /\ product_data.title # <<>>
    /\ products_csv = <<ProductHeaders, ProductRow(product_data)>>
    /\ product_data.is_whitelisted = "False"
    /\ variants_csv = <<VariantHeaders>>

\* C21: with no provider holding both a key and a model, detect_llm_provider
\* raises; the RuntimeError of startup ends the session at the top level
\* with no results directory, no output file, no platform detected, no
\* listing page loaded and no product tab opened; and a session that leaves
\* startup otherwise has created and navigated nothing yet either.
C21_NoCredentialsFailsBeforeExtraction ==
    /\ \A config \in ProviderConfigs :
          (~\E i \in DOMAIN config : config[i].api_key /\ config[i].model) =>
              detect_llm_provider(config, 1) = "RuntimeError"
    /\ [](error = "RuntimeError" =>
              /\ pc = "crashed"
              /\ session_dir = "none"
              /\ products_csv = <<>>
              /\ variants_csv = <<>>
              /\ platform = "none"
              /\ current_page = 0
              /\ iterations = 0
              /\ visited = 0
              /\ open_tabs = 0)
    /\ [][ pc = "main" =>
              /\ \/ pc' = "crashed" /\ error' = "RuntimeError"
                 \/ pc' = "url" /\ error' = "none"
              /\ session_dir' = "none"
              /\ current_page' = 0 ]_vars

\* startup ended with the RuntimeError and nothing was created
C21_Witness ==
    /\ pc = "crashed"
    /\ error = "RuntimeError"
    /\ session_dir = "none"
    /\ products_csv = <<>>

\* where the session is while the listing loop runs
InListingLoop ==
    /\ flow = "listing"
    /\ pc \in {"loop_head", "open_tab", "save_product", "call_variants",
               "in_variants", "save_variant", "close_tab", "advance"}

\* C22: the listing loop is left only to the code after it, and exactly in
\* three cases: at its head when get_product_links returned an empty list,
\* at the pagination step when the counter has reached a cap max_pages > 0
\* (go_to_next_page is then not called), and at the pagination step when
\* go_to_next_page returned False; in every other case the loop goes on.
\* With max_pages = N > 0 at most N iterations are begun, and a loop that
\* was entered is eventually left.
C22_LoopStopsOnThreeConditions ==
    /\ [][ (InListingLoop /\ ~InListingLoop') => pc' = "after_loop" ]_vars
    /\ [][ (flow = "listing" /\ pc = "loop_head") =>
              /\ iterations' = iterations + 1
              /\ (pc' = "after_loop") <=> (product_links' = <<>>)
              /\ (pc' = "after_loop") => exit_reason' = "no_links" ]_vars
    /\ [][ (flow = "listing" /\ pc = "advance") =>
              IF max_pages > 0 /\ current_page >= max_pages
              THEN /\ pc' = "after_loop"
                   /\ exit_reason' = "cap_reached"
                   /\ next_calls' = next_calls
              ELSE /\ next_calls' = next_calls + 1
                   /\ \/ pc' = "after_loop" /\ exit_reason' = "next_failed"
                      \/ pc' = "loop_head" /\ current_page' = current_page + 1 ]_vars
    /\ [](pc = "after_loop" => exit_reason \in {"no_links", "next_failed", "cap_reached"})
    /\ []((flow = "listing" /\ max_pages > 0) =>
              (iterations <= max_pages /\ current_page <= max_pages))
    /\ []((flow = "listing" /\ max_pages > 0 /\ pc = "loop_head") => <>(pc = "after_loop"))

\* a run with cap 2 that processed two pages with products and left the
\* loop at the cap
C22_Witness ==
    /\ pc = "after_loop"
    /\ max_pages = 2
    /\ iterations = 2
    /\ visited >= 2
    /\ exit_reason = "cap_reached"

\* the selector yields text with at least one non-whitespace character
YieldsText(sel) ==
    sel.kind = "text" /\ \E i \in DOMAIN sel.text : sel.text[i] \notin Whitespace

\* whitespace normalization read left to right: a character that is not
\* whitespace is kept; a run of whitespace becomes one space when kept
\* characters precede it and others follow it, and nothing otherwise
RECURSIVE Normalized(_, _)
Normalized(t, out) ==
    IF t = <<>> THEN out
    ELSE IF Head(t) \notin Whitespace THEN Normalized(Tail(t), Append(out, Head(t)))
    ELSE IF /\ out # <<>>
            /\ out[Len(out)] # " "
            /\ \E i \in DOMAIN t : t[i] \notin Whitespace
         THEN Normalized(Tail(t), Append(out, " "))
         ELSE Normalized(Tail(t), out)

\* C23: first_text and text_by_xpath return None exactly when no selector
\* of the list yields text with a non-whitespace character (raising,
\* matching nothing, or empty text); otherwise they return the
\* whitespace-normalized text of the first selector in list order that
\* does, whatever the selectors before it did (raising ones included) and
\* with nothing of any other selector's text in it.
C23_FirstUsableSelectorWins ==
    t_pc = "done" =>
        IF \A i \in DOMAIN t_selectors : ~YieldsText(t_selectors[i])
        THEN t_result = None
        ELSE LET k == CHOOSE i \in DOMAIN t_selectors :
                          /\ YieldsText(t_selectors[i])
                          /\ \A j \in 1..(i - 1) : ~YieldsText(t_selectors[j])
             IN  /\ t_result.found
                 /\ t_result.text = Normalized(t_selectors[k].text, <<>>)

\* the first selector raised, the second matched an element with blank
\* text, the third one's text needed normalizing and was returned
C23_Witness ==
    /\ t_pc = "done"
    /\ Len(t_selectors) = 3
    /\ t_selectors[1].kind = "raises"
    /\ t_selectors[2] = [kind |-> "text", text |-> <<" ">>]
    /\ t_selectors[3] = [kind |-> "text", text |-> <<"\n", "a", " ", "\n", "b", " ">>]
    /\ t_result = [found |-> TRUE, text |-> <<"a", " ", "b">>]

\* C24: a pass of the option loop whose selection failed appends no record
\* to the list extract_variants returns.
C24_FailedSelectionGivesNoRecord ==
    [][ (v_pc = "loop" /\ v_last'.selection = "not_selected") =>
          v_variants' = v_variants ]_vars

\* C25: every data row of the variants file carries, as main_product_url,
\* the product_url of some data row of the products file.
C25_VariantRowsReferenceSavedProduct ==
    \A i \in 2..Len(variants_csv) :
        \E j \in 2..Len(products_csv) :
            products_csv[j][1] = variants_csv[i][2]

\* the URL an adapter returns for an anchor: Amazon cuts the query and the
\* fragment off, the other adapters return the href as it is
ReturnedForm(adapter, h) ==
    IF adapter = "amazon" THEN CleanUrl(h) ELSE h

\* the positions, in the anchors, at which a returned URL occurs
Occurrences(adapter, anchors, url) ==
    {i \in DOMAIN anchors : ReturnedForm(adapter, anchors[i]) = url}

\* the returned URLs are in the order of their first occurrence in anchors
InDocumentOrder(adapter, anchors, urls) ==
    \A i, j \in DOMAIN urls :
        i < j =>
            /\ Occurrences(adapter, anchors, urls[i]) # {}
            /\ Occurrences(adapter, anchors, urls[j]) # {}
            /\ \E a \in Occurrences(adapter, anchors, urls[i]) :
                  \A b \in Occurrences(adapter, anchors, urls[j]) : a < b

\* C26: the list get_product_links returned is in the document order of
\* the first occurrence of its URLs among the page's anchors (for Myntra's
\* fallback, among the product-card anchors it reads), in every adapter.
C26_LinksInDocumentOrder ==
    g_pc = "done" =>
        \/ InDocumentOrder(g_adapter, g_hrefs, g_urls)
        \/ g_adapter = "myntra" /\ InDocumentOrder(g_adapter, g_alt, g_urls)

\* C27: before the results directory is set up neither file exists; from
\* then on, in both flows, the first line of the products file is its
\* header and the first line of the variants file is its header, no later
\* line is a header again, and the first lines never change while rows are
\* appended.
C27_FilesStartWithHeader ==
    /\ [](session_dir = "none" => (products_csv = <<>> /\ variants_csv = <<>>))
    /\ [](session_dir = "created" =>
              /\ flow \in {"single", "listing"}
              /\ Len(products_csv) >= 1
              /\ Len(variants_csv) >= 1
              /\ products_csv[1] = ProductHeaders
              /\ variants_csv[1] = VariantHeaders
              /\ \A i \in 2..Len(products_csv) : products_csv[i] # ProductHeaders
              /\ \A i \in 2..Len(variants_csv) : variants_csv[i] # VariantHeaders)
    /\ [][ session_dir = "created" =>
              /\ session_dir' = "created"
              /\ Len(products_csv') >= Len(products_csv)
              /\ Len(variants_csv') >= Len(variants_csv) ]_vars

\* a listing session that appended a product row and a variant row under
\* the two headers
C27_Witness ==
    /\ flow = "listing"
    /\ Len(products_csv) = 2
    /\ Len(variants_csv) = 2
    /\ products_csv[1] = ProductHeaders
    /\ variants_csv[1] = VariantHeaders
    /\ products_csv[2] # ProductHeaders

\* C28: once the cap prompt was interrupted, no iteration of the listing
\* loop is begun and no product link is taken up.
C28_InterruptStopsSession ==
    interrupted => (iterations = 0 /\ visited = 0)

C30_ProductRowBeforeVariants ==
    /\ []((/\ pc \in {"call_variants", "in_variants", "save_variant"}
           /\ (product_data.title # <<>> \/ product_data.price # <<>>)) =>
              /\ Len(products_csv) >= 2
              /\ products_csv[Len(products_csv)] = ProductRow(product_data))
    /\ [][ (pc \in {"call_variants", "in_variants"}) =>
              /\ products_csv' = products_csv
              /\ variants_csv' = variants_csv ]_vars
    /\ [][ (session_dir = "created" /\ variants_csv' # variants_csv) =>
              /\ pc = "save_variant"
              /\ v_pc = "idle"
              /\ var_i \in DOMAIN variants
              /\ products_csv' = products_csv ]_vars

\* an option's extraction raised while extract_variants ran on the page of
\* a product whose row is already in the products file
C30_Witness ==
    /\ pc = "in_variants"
    /\ v_last.extraction = "raised"
    /\ product_data.title # <<>>
    /\ Len(products_csv) = 2
    /\ products_csv[2] = ProductRow(product_data)
    /\ variants_csv = <<VariantHeaders>>

====
